---- MODULE Spec2Model ----
(***************************************************************************)
(* Ring buffer (rbuffer.c) and singly linked list (slist.c) of             *)
(* kyungjae-lee/datastructures-and-algorithms, with the ring buffer test   *)
(* driver (main.c).  Pointers are integers (NULL is 0), a structure in     *)
(* dynamic memory is a record, p_buf is the storage as a sequence whose    *)
(* element i+1 is the C element p_buf[i].                                  *)
(***************************************************************************)
EXTENDS Integers, Sequences, FiniteSets

(* ------------------------------ bounds -------------------------------- *)
\* largest capacity handed to rbuffer_create
MaxCapacity == 3
\* data bytes handed to rbuffer_write are 1..MaxData
MaxData == 2
\* number of ring buffer calls after rbuffer_create
MaxHist == 6
\* number of nodes malloc can hand out to the list
MaxNodes == 3
\* number of list calls after slist_create
MaxListOps == 4
\* number of calls made with a null handle
MaxNullCalls == 3
\* each byte of main's uninitialised variable data starts as one value of
\* 0..MaxGarbage
MaxGarbage == 2

(* --------------------------- addresses -------------------------------- *)
NULL == 0
\* address of the control structure returned by malloc in rbuffer_create
RB_ADDR == 20
\* address of the storage returned by malloc in rbuffer_create
BUF_ADDR == 21
\* address of the list header returned by malloc in slist_create
LIST_ADDR == 10
\* address of the caller's variable that receives the data read
DATA_ADDR == 30

\* value of a byte that was never written (malloc'ed storage, an
\* uninitialised variable)
Indet == -1

VARIABLES
    prog,      \* which module the caller exercises: "rbuffer" or "slist"
    pc,        \* caller position: "start", "run", "done"
    p_rb,      \* the caller's ring buffer handle
    mem_rb,    \* the struct rbuffer_t the handle points to
    p_list,    \* the caller's list handle
    mem_list,  \* the struct slist_t the handle points to
    nodes,     \* the struct slist_node_t at each node address 1..Len(nodes)
    data,      \* the caller's variable behind p_data
    ret,       \* the bool the last call returned as <<b>>, <<>> when it
               \* returned void or (create) the handle
    last,      \* name of the last function called
    hist,      \* calls since the create call: <<name, argument, ret, data>>,
               \* for the ring buffer followed by the data_count after the call
    allocs,    \* addresses malloc has returned
    frees,     \* addresses passed to free, in order
    i,         \* loop counter of main
    stdout     \* what main has printed: <<v>> for a number, <<>> for "_"

vars == <<prog, pc, p_rb, mem_rb, p_list, mem_list, nodes, data, ret, last, hist, allocs, frees, i, stdout>>

(* ------------------------------ rbuffer.c ------------------------------ *)

\* struct rbuffer_t
rbuffer_t(p_buf, capacity, ridx, widx, b_is_full) ==
    [p_buf |-> p_buf, capacity |-> capacity, ridx |-> ridx, widx |-> widx,
     b_is_full |-> b_is_full]

\* memory no structure has been stored in
NoRb == rbuffer_t(<<>>, 0, 0, 0, FALSE)

\* rbuffer_create accepting a capacity of 0
rbuffer_create_zero(capacity, ok_rb, ok_buf) ==
    IF capacity < 0
    THEN [p |-> NULL, m |-> NoRb, allocs |-> {}, frees |-> <<>>]
    ELSE IF ~ok_rb
    THEN [p |-> NULL, m |-> NoRb, allocs |-> {}, frees |-> <<>>]
    ELSE IF ~ok_buf
    THEN [p |-> NULL, m |-> NoRb, allocs |-> {RB_ADDR}, frees |-> <<RB_ADDR>>]
    ELSE [p |-> RB_ADDR,
          m |-> rbuffer_t([k \in 1..capacity |-> Indet], capacity, 0, 0, FALSE),
          allocs |-> {RB_ADDR, BUF_ADDR}, frees |-> <<>>]

\* rbuffer_create: ok_rb, ok_buf say whether the two malloc calls succeed
rbuffer_create(capacity, ok_rb, ok_buf) ==
    IF capacity < 1
    THEN [p |-> NULL, m |-> NoRb, allocs |-> {}, frees |-> <<>>]
    ELSE IF ~ok_rb
    THEN [p |-> NULL, m |-> NoRb, allocs |-> {}, frees |-> <<>>]
    ELSE IF ~ok_buf
    THEN [p |-> NULL, m |-> NoRb, allocs |-> {RB_ADDR}, frees |-> <<RB_ADDR>>]
    ELSE [p |-> RB_ADDR,
          m |-> rbuffer_t([k \in 1..capacity |-> Indet], capacity, 0, 0, FALSE),
          allocs |-> {RB_ADDR, BUF_ADDR}, frees |-> <<>>]

\* rbuffer_read taking the data after it has advanced the read index
rbuffer_read_late(p, m, p_data, d) ==
    IF p = NULL \/ p_data = NULL
    THEN [m |-> m, ret |-> FALSE, data |-> d]
    ELSE IF m.widx = m.ridx /\ m.b_is_full = FALSE
    THEN [m |-> m, ret |-> FALSE, data |-> d]
    ELSE LET r1 == m.ridx + 1
             r2 == IF r1 >= m.capacity THEN 0 ELSE r1
             f  == IF r2 = m.widx THEN FALSE ELSE m.b_is_full
         IN [m |-> [m EXCEPT !.ridx = r2, !.b_is_full = f],
             ret |-> TRUE, data |-> m.p_buf[r2 + 1]]

\* rbuffer_read testing only the full flag before it reads
rbuffer_read_noidx(p, m, p_data, d) ==
    IF p = NULL \/ p_data = NULL
    THEN [m |-> m, ret |-> FALSE, data |-> d]
    ELSE IF m.widx # m.ridx /\ m.b_is_full = FALSE
    THEN [m |-> m, ret |-> FALSE, data |-> d]
    ELSE LET r1 == m.ridx + 1
             r2 == IF r1 >= m.capacity THEN 0 ELSE r1
             f  == IF r2 = m.widx THEN FALSE ELSE m.b_is_full
         IN [m |-> [m EXCEPT !.ridx = r2, !.b_is_full = f],
             ret |-> TRUE, data |-> m.p_buf[m.ridx + 1]]

\* rbuffer_read that leaves the full flag as it is
rbuffer_read_keepflag(p, m, p_data, d) ==
    IF p = NULL \/ p_data = NULL
    THEN [m |-> m, ret |-> FALSE, data |-> d]
    ELSE IF m.widx = m.ridx /\ m.b_is_full = FALSE
    THEN [m |-> m, ret |-> FALSE, data |-> d]
    ELSE LET r1 == m.ridx + 1
             r2 == IF r1 >= m.capacity THEN 0 ELSE r1
         IN [m |-> [m EXCEPT !.ridx = r2],
             ret |-> TRUE, data |-> m.p_buf[m.ridx + 1]]

\* rbuffer_read: d is the current value of *p_data
rbuffer_read(p, m, p_data, d) ==
    IF p = NULL \/ p_data = NULL
    THEN [m |-> m, ret |-> FALSE, data |-> d]
    ELSE IF m.widx = m.ridx /\ m.b_is_full = FALSE
    THEN [m |-> m, ret |-> FALSE, data |-> d]
    ELSE LET r1 == m.ridx + 1
             r2 == IF r1 >= m.capacity THEN 0 ELSE r1
             f  == IF r2 = m.widx THEN FALSE ELSE m.b_is_full
         IN [m |-> [m EXCEPT !.ridx = r2, !.b_is_full = f],
             ret |-> TRUE, data |-> m.p_buf[m.ridx + 1]]

\* rbuffer_write that leaves the read index alone when the buffer is full
rbuffer_write_keep(p, m, dat) ==
    IF p = NULL
    THEN [m |-> m, ret |-> FALSE]
    ELSE LET w1 == m.widx + 1
             w2 == IF w1 >= m.capacity THEN 0 ELSE w1
             f  == IF w2 = m.ridx THEN TRUE ELSE m.b_is_full
         IN [m |-> [m EXCEPT !.p_buf[m.widx + 1] = dat,
                             !.widx = w2, !.b_is_full = f],
             ret |-> TRUE]

\* rbuffer_write wrapping the write index only once it is past the capacity
rbuffer_write_wrap(p, m, dat) ==
    IF p = NULL
    THEN [m |-> m, ret |-> FALSE]
    ELSE LET r1 == IF m.b_is_full THEN m.ridx + 1 ELSE m.ridx
             r2 == IF m.b_is_full /\ r1 >= m.capacity THEN 0 ELSE r1
             w1 == m.widx + 1
             w2 == IF w1 > m.capacity THEN 0 ELSE w1
             f  == IF w2 = r2 THEN TRUE ELSE m.b_is_full
         IN [m |-> [m EXCEPT !.p_buf[m.widx + 1] = dat, !.ridx = r2,
                             !.widx = w2, !.b_is_full = f],
             ret |-> TRUE]

\* rbuffer_write advancing the read index of a full buffer without wrapping
rbuffer_write_nowrap(p, m, dat) ==
    IF p = NULL
    THEN [m |-> m, ret |-> FALSE]
    ELSE LET r2 == IF m.b_is_full THEN m.ridx + 1 ELSE m.ridx
             w1 == m.widx + 1
             w2 == IF w1 >= m.capacity THEN 0 ELSE w1
             f  == IF w2 = r2 THEN TRUE ELSE m.b_is_full
         IN [m |-> [m EXCEPT !.p_buf[m.widx + 1] = dat, !.ridx = r2,
                             !.widx = w2, !.b_is_full = f],
             ret |-> TRUE]

\* rbuffer_write: dat is the uint8_t argument
rbuffer_write(p, m, dat) ==
    IF p = NULL
    THEN [m |-> m, ret |-> FALSE]
    ELSE LET r1 == IF m.b_is_full THEN m.ridx + 1 ELSE m.ridx
             r2 == IF m.b_is_full /\ r1 >= m.capacity THEN 0 ELSE r1
             w1 == m.widx + 1
             w2 == IF w1 >= m.capacity THEN 0 ELSE w1
             f  == IF w2 = r2 THEN TRUE ELSE m.b_is_full
         IN [m |-> [m EXCEPT !.p_buf[m.widx + 1] = dat, !.ridx = r2,
                             !.widx = w2, !.b_is_full = f],
             ret |-> TRUE]

rbuffer_data_count(p, m) ==
    IF p = NULL THEN 0
    ELSE IF m.widx = m.ridx THEN (IF m.b_is_full THEN m.capacity ELSE 0)
    ELSE IF m.widx > m.ridx THEN m.widx - m.ridx
    ELSE m.capacity - (m.ridx - m.widx)

\* rbuffer_free_count with the last branch of rbuffer_data_count
rbuffer_free_count_copy(p, m) ==
    IF p = NULL THEN 0
    ELSE IF m.widx = m.ridx THEN (IF m.b_is_full THEN 0 ELSE m.capacity)
    ELSE IF m.widx > m.ridx THEN m.capacity - (m.widx - m.ridx)
    ELSE m.capacity - (m.ridx - m.widx)

rbuffer_free_count(p, m) ==
    IF p = NULL THEN 0
    ELSE IF m.widx = m.ridx THEN (IF m.b_is_full THEN 0 ELSE m.capacity)
    ELSE IF m.widx > m.ridx THEN m.capacity - (m.widx - m.ridx)
    ELSE m.ridx - m.widx

\* rbuffer_is_empty without the test of the handle
rbuffer_is_empty_nonull(p, m) ==
    m.widx = m.ridx /\ ~m.b_is_full

rbuffer_is_empty(p, m) ==
    IF p = NULL THEN FALSE
    ELSE m.widx = m.ridx /\ ~m.b_is_full

rbuffer_is_full(p, m) ==
    IF p = NULL THEN FALSE
    ELSE m.widx = m.ridx /\ m.b_is_full

\* rbuffer_clear that leaves the full flag as it is
rbuffer_clear_flag(p, m) ==
    IF p = NULL
    THEN [m |-> m, ret |-> FALSE]
    ELSE [m |-> [m EXCEPT !.p_buf = [k \in 1..m.capacity |-> 0],
                          !.widx = 0, !.ridx = 0],
          ret |-> TRUE]

rbuffer_clear(p, m) ==
    IF p = NULL
    THEN [m |-> m, ret |-> FALSE]
    ELSE [m |-> [m EXCEPT !.p_buf = [k \in 1..m.capacity |-> 0],
                          !.widx = 0, !.ridx = 0, !.b_is_full = FALSE],
          ret |-> TRUE]

\* rbuffer_destroy: the addresses it passes to free, in order
rbuffer_destroy(p) ==
    IF p = NULL THEN <<>> ELSE <<BUF_ADDR, RB_ADDR>>

(* ------------------------------- slist.c ------------------------------- *)

\* struct slist_node_t
slist_node_t(d, p_next) == [data |-> d, p_next |-> p_next]

\* struct slist_t
slist_t(p_head, p_tail, size) ==
    [p_head |-> p_head, p_tail |-> p_tail, size |-> size]

\* memory no list header has been stored in
NoList == slist_t(NULL, NULL, 0)

\* malloc(sizeof(slist_node_t)): the next unused node address, NULL when the
\* allocation fails
malloc_node(n, ok) ==
    IF ok /\ Len(n) < MaxNodes THEN Len(n) + 1 ELSE NULL

slist_create(ok) ==
    IF ~ok
    THEN [p |-> NULL, l |-> NoList, allocs |-> {}]
    ELSE [p |-> LIST_ADDR, l |-> slist_t(NULL, NULL, 0), allocs |-> {LIST_ADDR}]

\* the loop of slist_clear: the nodes it frees, from p_remove on
RECURSIVE slist_clear_loop(_, _)
slist_clear_loop(p_remove, n) ==
    IF p_remove = NULL THEN <<>>
    ELSE <<p_remove>> \o slist_clear_loop(n[p_remove].p_next, n)

\* slist_clear without the reset of size
slist_clear_nosize(p, l, n) ==
    IF p = NULL
    THEN [l |-> l, frees |-> <<>>]
    ELSE [l |-> [l EXCEPT !.p_head = NULL, !.p_tail = NULL],
          frees |-> slist_clear_loop(l.p_head, n)]

slist_clear(p, l, n) ==
    IF p = NULL
    THEN [l |-> l, frees |-> <<>>]
    ELSE [l |-> [l EXCEPT !.p_head = NULL, !.p_tail = NULL, !.size = 0],
          frees |-> slist_clear_loop(l.p_head, n)]

\* slist_destroy without its final return true
slist_destroy_noret(p, l, n) ==
    IF p = NULL
    THEN [l |-> l, frees |-> <<>>, ret |-> FALSE]
    ELSE LET c == slist_clear(p, l, n)
         IN [l |-> c.l, frees |-> c.frees \o <<p>>, ret |-> FALSE]

\* slist_destroy without the call of slist_clear
slist_destroy_noclear(p, l, n) ==
    IF p = NULL
    THEN [l |-> l, frees |-> <<>>, ret |-> FALSE]
    ELSE [l |-> l, frees |-> <<p>>, ret |-> TRUE]

slist_destroy(p, l, n) ==
    IF p = NULL
    THEN [l |-> l, frees |-> <<>>, ret |-> FALSE]
    ELSE LET c == slist_clear(p, l, n)
         IN [l |-> c.l, frees |-> c.frees \o <<p>>, ret |-> TRUE]

\* slist_add_to_head counting the node before it has allocated it
slist_add_to_head_early(p, l, n, d, ok) ==
    IF p = NULL
    THEN [l |-> l, n |-> n, ret |-> FALSE]
    ELSE LET p_new == malloc_node(n, ok)
         IN IF p_new = NULL
            THEN [l |-> [l EXCEPT !.size = l.size + 1], n |-> n, ret |-> FALSE]
            ELSE IF 0 = l.size
            THEN [l |-> [l EXCEPT !.p_head = p_new, !.p_tail = p_new,
                                  !.size = l.size + 1],
                  n |-> Append(n, slist_node_t(d, NULL)),
                  ret |-> TRUE]
            ELSE [l |-> [l EXCEPT !.p_head = p_new, !.size = l.size + 1],
                  n |-> Append(n, slist_node_t(d, l.p_head)),
                  ret |-> TRUE]

slist_add_to_head(p, l, n, d, ok) ==
    IF p = NULL
    THEN [l |-> l, n |-> n, ret |-> FALSE]
    ELSE LET p_new == malloc_node(n, ok)
         IN IF p_new = NULL
            THEN [l |-> l, n |-> n, ret |-> FALSE]
            ELSE IF 0 = l.size
            THEN [l |-> [l EXCEPT !.p_head = p_new, !.p_tail = p_new,
                                  !.size = l.size + 1],
                  n |-> Append(n, slist_node_t(d, NULL)),
                  ret |-> TRUE]
            ELSE [l |-> [l EXCEPT !.p_head = p_new, !.size = l.size + 1],
                  n |-> Append(n, slist_node_t(d, l.p_head)),
                  ret |-> TRUE]

\* slist_add_to_tail that does not link the new node after the old tail
slist_add_to_tail_nolink(p, l, n, d, ok) ==
    IF p = NULL
    THEN [l |-> l, n |-> n, ret |-> FALSE]
    ELSE LET p_new == malloc_node(n, ok)
         IN IF p_new = NULL
            THEN [l |-> l, n |-> n, ret |-> FALSE]
            ELSE IF 0 = l.size
            THEN [l |-> [l EXCEPT !.p_head = p_new, !.p_tail = p_new,
                                  !.size = l.size + 1],
                  n |-> Append(n, slist_node_t(d, NULL)),
                  ret |-> TRUE]
            ELSE [l |-> [l EXCEPT !.p_tail = p_new, !.size = l.size + 1],
                  n |-> Append(n, slist_node_t(d, NULL)),
                  ret |-> TRUE]

slist_add_to_tail(p, l, n, d, ok) ==
    IF p = NULL
    THEN [l |-> l, n |-> n, ret |-> FALSE]
    ELSE LET p_new == malloc_node(n, ok)
         IN IF p_new = NULL
            THEN [l |-> l, n |-> n, ret |-> FALSE]
            ELSE IF 0 = l.size
            THEN [l |-> [l EXCEPT !.p_head = p_new, !.p_tail = p_new,
                                  !.size = l.size + 1],
                  n |-> Append(n, slist_node_t(d, NULL)),
                  ret |-> TRUE]
            ELSE [l |-> [l EXCEPT !.p_tail = p_new, !.size = l.size + 1],
                  n |-> Append([n EXCEPT ![l.p_tail].p_next = p_new],
                               slist_node_t(d, NULL)),
                  ret |-> TRUE]

\* slist_peek_head reading the node at the tail
slist_peek_head_tail(p, l, n, p_data, d) ==
    IF p = NULL \/ p_data = NULL
    THEN [ret |-> FALSE, data |-> d]
    ELSE IF 0 = l.size
    THEN [ret |-> FALSE, data |-> d]
    ELSE [ret |-> TRUE, data |-> n[l.p_tail].data]

\* slist_peek_head: d is the current value of *p_data
slist_peek_head(p, l, n, p_data, d) ==
    IF p = NULL \/ p_data = NULL
    THEN [ret |-> FALSE, data |-> d]
    ELSE IF 0 = l.size
    THEN [ret |-> FALSE, data |-> d]
    ELSE [ret |-> TRUE, data |-> n[l.p_head].data]

\* slist_remove_head reporting success on an empty list
slist_remove_head_empty(p, l, n, p_data, d) ==
    IF p = NULL \/ p_data = NULL
    THEN [l |-> l, ret |-> FALSE, data |-> d, frees |-> <<>>]
    ELSE IF 0 = l.size
    THEN [l |-> l, ret |-> TRUE, data |-> d, frees |-> <<>>]
    ELSE LET p_remove == l.p_head
         IN [l |-> [l EXCEPT !.p_head = n[p_remove].p_next,
                             !.p_tail = IF 1 = l.size THEN NULL ELSE l.p_tail,
                             !.size = l.size - 1],
             ret |-> TRUE, data |-> n[p_remove].data,
             frees |-> <<p_remove>>]

\* slist_remove_head without size--
slist_remove_head_nodec(p, l, n, p_data, d) ==
    IF p = NULL \/ p_data = NULL
    THEN [l |-> l, ret |-> FALSE, data |-> d, frees |-> <<>>]
    ELSE IF 0 = l.size
    THEN [l |-> l, ret |-> FALSE, data |-> d, frees |-> <<>>]
    ELSE LET p_remove == l.p_head
         IN [l |-> [l EXCEPT !.p_head = n[p_remove].p_next,
                             !.p_tail = IF 1 = l.size THEN NULL ELSE l.p_tail],
             ret |-> TRUE, data |-> n[p_remove].data,
             frees |-> <<p_remove>>]

\* slist_remove_head without the special case that clears p_tail
slist_remove_head_tail(p, l, n, p_data, d) ==
    IF p = NULL \/ p_data = NULL
    THEN [l |-> l, ret |-> FALSE, data |-> d, frees |-> <<>>]
    ELSE IF 0 = l.size
    THEN [l |-> l, ret |-> FALSE, data |-> d, frees |-> <<>>]
    ELSE LET p_remove == l.p_head
         IN [l |-> [l EXCEPT !.p_head = n[p_remove].p_next,
                             !.size = l.size - 1],
             ret |-> TRUE, data |-> n[p_remove].data,
             frees |-> <<p_remove>>]

\* slist_remove_head that tests p_data only where it stores the data
slist_remove_head_latechk(p, l, n, p_data, d) ==
    IF p = NULL
    THEN [l |-> l, ret |-> FALSE, data |-> d, frees |-> <<>>]
    ELSE IF 0 = l.size
    THEN [l |-> l, ret |-> FALSE, data |-> d, frees |-> <<>>]
    ELSE LET p_remove == l.p_head
         IN [l |-> [l EXCEPT !.p_head = n[p_remove].p_next,
                             !.p_tail = IF 1 = l.size THEN NULL ELSE l.p_tail,
                             !.size = l.size - 1],
             ret |-> p_data # NULL,
             data |-> IF p_data = NULL THEN d ELSE n[p_remove].data,
             frees |-> <<p_remove>>]

\* slist_remove_head: d is the current value of *p_data
slist_remove_head(p, l, n, p_data, d) ==
    IF p = NULL \/ p_data = NULL
    THEN [l |-> l, ret |-> FALSE, data |-> d, frees |-> <<>>]
    ELSE IF 0 = l.size
    THEN [l |-> l, ret |-> FALSE, data |-> d, frees |-> <<>>]
    ELSE LET p_remove == l.p_head
         IN [l |-> [l EXCEPT !.p_head = n[p_remove].p_next,
                             !.p_tail = IF 1 = l.size THEN NULL ELSE l.p_tail,
                             !.size = l.size - 1],
             ret |-> TRUE, data |-> n[p_remove].data,
             frees |-> <<p_remove>>]

slist_is_empty(p, l) ==
    IF p = NULL THEN FALSE ELSE 0 = l.size

slist_size(p, l) ==
    IF p = NULL THEN 0 ELSE l.size

(* ------------------------- the caller's steps -------------------------- *)

Init ==
    /\ prog \in {"rbuffer", "slist"}
    /\ pc = "start"
    /\ p_rb = NULL
    /\ mem_rb = NoRb
    /\ p_list = NULL
    /\ mem_list = NoList
    /\ nodes = <<>>
    /\ data = Indet
    /\ ret = <<>>
    /\ last = "none"
    /\ hist = <<>>
    /\ allocs = {}
    /\ frees = <<>>
    /\ i = 0
    /\ stdout = <<>>

Create ==
    /\ prog = "rbuffer" /\ pc = "start"
    /\ \E capacity \in 0..MaxCapacity, ok_rb \in BOOLEAN, ok_buf \in BOOLEAN :
         LET c == rbuffer_create(capacity, ok_rb, ok_buf)
         IN /\ p_rb' = c.p
            /\ mem_rb' = c.m
            /\ allocs' = c.allocs
            /\ frees' = c.frees
            /\ hist' = <<<<"rbuffer_create", <<capacity, ok_rb, ok_buf>>,
                           <<>>, data, rbuffer_data_count(c.p, c.m)>>>>
    /\ ret' = <<>>
    /\ pc' = "run"
    /\ last' = "rbuffer_create"
    /\ UNCHANGED <<i, stdout, prog, p_list, mem_list, nodes, data>>

RbCall ==
    /\ prog = "rbuffer" /\ pc = "run"
    /\ Len(hist) <= IF p_rb = NULL THEN MaxNullCalls ELSE MaxHist

Write ==
    /\ RbCall
    /\ \E dat \in 1..MaxData :
         LET w == rbuffer_write(p_rb, mem_rb, dat)
         IN /\ mem_rb' = w.m
            /\ ret' = <<w.ret>>
            /\ hist' = Append(hist, <<"rbuffer_write", dat, <<w.ret>>, data,
                                    rbuffer_data_count(p_rb, w.m)>>)
    /\ last' = "rbuffer_write"
    /\ UNCHANGED <<i, stdout, prog, p_list, mem_list, nodes, pc, p_rb, data, allocs, frees>>

Read ==
    /\ RbCall
    /\ \E p_data \in {NULL, DATA_ADDR} :
         LET r == rbuffer_read(p_rb, mem_rb, p_data, data)
         IN /\ mem_rb' = r.m
            /\ ret' = <<r.ret>>
            /\ data' = r.data
            /\ hist' = Append(hist, <<"rbuffer_read", p_data, <<r.ret>>, r.data,
                                    rbuffer_data_count(p_rb, r.m)>>)
    /\ last' = "rbuffer_read"
    /\ UNCHANGED <<i, stdout, prog, p_list, mem_list, nodes, pc, p_rb, allocs, frees>>

Clear ==
    /\ RbCall
    /\ LET c == rbuffer_clear(p_rb, mem_rb)
       IN /\ mem_rb' = c.m
          /\ ret' = <<c.ret>>
          /\ hist' = Append(hist, <<"rbuffer_clear", 0, <<c.ret>>, data,
                                  rbuffer_data_count(p_rb, c.m)>>)
    /\ last' = "rbuffer_clear"
    /\ UNCHANGED <<i, stdout, prog, p_list, mem_list, nodes, pc, p_rb, data, allocs, frees>>

Destroy ==
    /\ RbCall
    /\ frees' = frees \o rbuffer_destroy(p_rb)
    /\ ret' = <<>>
    /\ hist' = Append(hist, <<"rbuffer_destroy", 0, <<>>, data, 0>>)
    /\ last' = "rbuffer_destroy"
    /\ pc' = "done"
    /\ UNCHANGED <<i, stdout, prog, p_list, mem_list, nodes, p_rb, mem_rb, data, allocs>>

ListCreate ==
    /\ prog = "slist" /\ pc = "start"
    /\ \E ok \in BOOLEAN :
         LET c == slist_create(ok)
         IN /\ p_list' = c.p
            /\ mem_list' = c.l
            /\ allocs' = c.allocs
            /\ hist' = <<<<"slist_create", <<ok>>, <<>>, data>>>>
    /\ ret' = <<>>
    /\ pc' = "run"
    /\ last' = "slist_create"
    /\ UNCHANGED <<i, stdout, prog, p_rb, mem_rb, nodes, data, frees>>

ListCall ==
    /\ prog = "slist" /\ pc = "run"
    /\ Len(hist) <= IF p_list = NULL THEN MaxNullCalls ELSE MaxListOps

\* the addresses of the list header and of the nodes allocated so far
ListAllocs(p, n) == (IF p = NULL THEN {} ELSE {p}) \cup (1..Len(n))

AddToHead ==
    /\ ListCall
    /\ \E d \in 1..MaxData, ok \in BOOLEAN :
         LET a == slist_add_to_head(p_list, mem_list, nodes, d, ok)
         IN /\ mem_list' = a.l
            /\ nodes' = a.n
            /\ allocs' = ListAllocs(p_list, a.n)
            /\ ret' = <<a.ret>>
            /\ hist' = Append(hist, <<"slist_add_to_head",
                                    <<d, malloc_node(nodes, ok)>>,
                                    <<a.ret>>, data>>)
    /\ last' = "slist_add_to_head"
    /\ UNCHANGED <<i, stdout, prog, pc, p_rb, mem_rb, p_list, data, frees>>

AddToTail ==
    /\ ListCall
    /\ \E d \in 1..MaxData, ok \in BOOLEAN :
         LET a == slist_add_to_tail(p_list, mem_list, nodes, d, ok)
         IN /\ mem_list' = a.l
            /\ nodes' = a.n
            /\ allocs' = ListAllocs(p_list, a.n)
            /\ ret' = <<a.ret>>
            /\ hist' = Append(hist, <<"slist_add_to_tail",
                                    <<d, malloc_node(nodes, ok)>>,
                                    <<a.ret>>, data>>)
    /\ last' = "slist_add_to_tail"
    /\ UNCHANGED <<i, stdout, prog, pc, p_rb, mem_rb, p_list, data, frees>>

PeekHead ==
    /\ ListCall
    /\ \E p_data \in {NULL, DATA_ADDR} :
         LET r == slist_peek_head(p_list, mem_list, nodes, p_data, data)
         IN /\ ret' = <<r.ret>>
            /\ data' = r.data
            /\ hist' = Append(hist, <<"slist_peek_head", p_data, <<r.ret>>, r.data>>)
    /\ last' = "slist_peek_head"
    /\ UNCHANGED <<i, stdout, prog, pc, p_rb, mem_rb, p_list, mem_list, nodes, allocs, frees>>

RemoveHead ==
    /\ ListCall
    /\ \E p_data \in {NULL, DATA_ADDR} :
         LET r == slist_remove_head(p_list, mem_list, nodes, p_data, data)
         IN /\ mem_list' = r.l
            /\ ret' = <<r.ret>>
            /\ data' = r.data
            /\ frees' = frees \o r.frees
            /\ hist' = Append(hist, <<"slist_remove_head", p_data, <<r.ret>>, r.data>>)
    /\ last' = "slist_remove_head"
    /\ UNCHANGED <<i, stdout, prog, pc, p_rb, mem_rb, p_list, nodes, allocs>>

ListClear ==
    /\ ListCall
    /\ LET c == slist_clear(p_list, mem_list, nodes)
       IN /\ mem_list' = c.l
          /\ frees' = frees \o c.frees
          /\ hist' = Append(hist, <<"slist_clear", 0, <<>>, data>>)
    /\ ret' = <<>>
    /\ last' = "slist_clear"
    /\ UNCHANGED <<i, stdout, prog, pc, p_rb, mem_rb, p_list, nodes, data, allocs>>

ListDestroy ==
    /\ ListCall
    /\ LET c == slist_destroy(p_list, mem_list, nodes)
       IN /\ mem_list' = c.l
          /\ frees' = frees \o c.frees
          /\ ret' = <<c.ret>>
          /\ hist' = Append(hist, <<"slist_destroy", 0, <<c.ret>>, data>>)
    /\ last' = "slist_destroy"
    /\ pc' = "done"
    /\ UNCHANGED <<i, stdout, prog, p_rb, mem_rb, p_list, nodes, data, allocs>>

Next ==
    \/ Create \/ Write \/ Read \/ Clear \/ Destroy
    \/ ListCreate \/ AddToHead \/ AddToTail \/ PeekHead \/ RemoveHead
    \/ ListClear \/ ListDestroy

Spec == Init /\ [][Next]_vars

(* ------------------------------ properties ----------------------------- *)

\* the data_count bytes from the read index on, in the order rbuffer_read
\* returns them
Contents(p, m) ==
    [k \in 1..rbuffer_data_count(p, m) |->
        m.p_buf[((m.ridx + k - 1) % m.capacity) + 1]]

\* the handle is valid: rbuffer_create has returned it, rbuffer_destroy has
\* not been called on it
ValidRb == prog = "rbuffer" /\ pc = "run" /\ p_rb # NULL

\* the calls since rbuffer_create are n writes followed by k reads
WritesThenReads(n, k) ==
    /\ Len(hist) = 1 + n + k
    /\ \A j \in 2..(n + 1) : hist[j][1] = "rbuffer_write"
    /\ \A j \in (n + 2)..(n + k + 1) :
          hist[j][1] = "rbuffer_read" /\ hist[j][2] = DATA_ADDR

\* C1: from a fresh buffer of capacity C, after n <= C writes data_count is
\* n, and n following reads all succeed and return the written values in
\* the order written, after which the buffer is empty.
C1_FifoWithinCapacity ==
    ValidRb =>
      \A n \in 0..mem_rb.capacity : \A k \in 0..n :
        WritesThenReads(n, k) =>
          /\ k = 0 => rbuffer_data_count(p_rb, mem_rb) = n
          /\ \A j \in 1..k :
                /\ hist[n + 1 + j][3] = <<TRUE>>
                /\ hist[n + 1 + j][4] = hist[1 + j][2]
          /\ k = n => /\ rbuffer_is_empty(p_rb, mem_rb)
                      /\ rbuffer_data_count(p_rb, mem_rb) = 0

\* three different-looking writes to a capacity-3 buffer have been read back
C1_Witness ==
    /\ ValidRb /\ mem_rb.capacity = 3
    /\ WritesThenReads(3, 3)
    /\ hist[2][2] # hist[3][2]

\* C2: from a fresh buffer of capacity C, after n > C writes data_count is
\* C, and C following reads return the last C written values in the order
\* written, after which the buffer is empty (nothing older is returned).
C2_OverwriteKeepsNewest ==
    ValidRb =>
      \A n \in (mem_rb.capacity + 1)..Len(hist) : \A k \in 0..mem_rb.capacity :
        WritesThenReads(n, k) =>
          /\ k = 0 => rbuffer_data_count(p_rb, mem_rb) = mem_rb.capacity
          /\ \A j \in 1..k :
                /\ hist[n + 1 + j][3] = <<TRUE>>
                /\ hist[n + 1 + j][4] = hist[1 + (n - mem_rb.capacity) + j][2]
          /\ k = mem_rb.capacity => rbuffer_is_empty(p_rb, mem_rb)

\* four writes to a capacity-2 buffer, the third differing from the fourth,
\* then two reads
C2_Witness ==
    /\ ValidRb /\ mem_rb.capacity = 2
    /\ WritesThenReads(4, 2)
    /\ hist[4][2] # hist[5][2]

\* C3: on a valid handle data_count + free_count is the capacity given to
\* rbuffer_create.
C3_CountsSumToCapacity ==
    ValidRb =>
      /\ rbuffer_data_count(p_rb, mem_rb) + rbuffer_free_count(p_rb, mem_rb)
           = hist[1][2][1]
      /\ mem_rb.capacity = hist[1][2][1]

\* the write index has wrapped behind the read index
C3_Witness ==
    ValidRb /\ mem_rb.widx < mem_rb.ridx /\ mem_rb.capacity = 3

\* C4: on a valid handle is_full and is_empty are never both true, and
\* exactly one of empty (count 0), full (count = capacity) and partially
\* occupied (neither, 0 < count < capacity) holds.
C4_EmptyFullPartial ==
    ValidRb =>
      LET e == rbuffer_is_empty(p_rb, mem_rb)
          f == rbuffer_is_full(p_rb, mem_rb)
          n == rbuffer_data_count(p_rb, mem_rb)
          isEmpty   == e /\ n = 0
          isFull    == f /\ n = mem_rb.capacity
          isPartial == ~e /\ ~f /\ 0 < n /\ n < mem_rb.capacity
      IN /\ ~(e /\ f)
         /\ isEmpty \/ isFull \/ isPartial
         /\ ~(isEmpty /\ isFull) /\ ~(isEmpty /\ isPartial)
         /\ ~(isFull /\ isPartial)

\* a full buffer whose indices are not at 0
C4_Witness ==
    ValidRb /\ rbuffer_is_full(p_rb, mem_rb) /\ mem_rb.ridx > 0

\* C6: rbuffer_read on a valid, empty buffer returns failure, produces no
\* value and leaves indices, full flag and storage unchanged, so data_count
\* is still 0.
C6_ReadEmptyFails ==
    [][(ValidRb /\ last' = "rbuffer_read"
        /\ mem_rb.ridx = mem_rb.widx /\ ~mem_rb.b_is_full)
       => /\ ret' = <<FALSE>>
          /\ data' = data
          /\ mem_rb' = mem_rb
          /\ rbuffer_data_count(p_rb', mem_rb') = 0]_vars

\* a read with a place for the data has failed on a buffer that was written
\* and read empty before
C6_Witness ==
    /\ ValidRb /\ Len(hist) >= 4
    /\ hist[2][1] = "rbuffer_write"
    /\ hist[Len(hist)][1] = "rbuffer_read"
    /\ hist[Len(hist)][2] = DATA_ADDR
    /\ hist[Len(hist)][3] = <<FALSE>>
    /\ mem_rb.ridx > 0

\* C7: rbuffer_clear on a valid handle succeeds and leaves the buffer empty:
\* both indices 0, full flag false, data_count 0, free_count = capacity; a
\* second rbuffer_clear right after it changes nothing.
C7_ClearEmptiesIdempotent ==
    [][(ValidRb /\ last' = "rbuffer_clear")
       => /\ ret' = <<TRUE>>
          /\ mem_rb'.ridx = 0 /\ mem_rb'.widx = 0 /\ mem_rb'.b_is_full = FALSE
          /\ rbuffer_is_empty(p_rb', mem_rb')
          /\ rbuffer_data_count(p_rb', mem_rb') = 0
          /\ rbuffer_free_count(p_rb', mem_rb') = mem_rb.capacity
          /\ mem_rb'.capacity = mem_rb.capacity
          /\ rbuffer_clear(p_rb', mem_rb').m = mem_rb'
          /\ last = "rbuffer_clear" => mem_rb' = mem_rb]_vars

\* a full buffer has been cleared twice in a row
C7_Witness ==
    /\ ValidRb /\ Len(hist) >= 4
    /\ hist[Len(hist)][1] = "rbuffer_clear"
    /\ hist[Len(hist) - 1][1] = "rbuffer_clear"
    /\ \A j \in 2..(Len(hist) - 2) : hist[j][1] = "rbuffer_write"
    /\ Len(hist) - 3 >= mem_rb.capacity

\* C8 as stated: destroy never reports a failure, for the ring buffer and
\* for the list, on a null handle and on a valid one.
C8_DestroyNeverFails ==
    last \in {"rbuffer_destroy", "slist_destroy"} => ret # <<FALSE>>

\* C8 amended: rbuffer_destroy returns nothing; on a null handle it frees
\* nothing, on a valid handle it frees storage and control structure.
\* slist_destroy returns true on a valid handle; on a null handle it changes
\* nothing, frees nothing and returns false.
C8_DestroyResults ==
    [][/\ last' = "rbuffer_destroy" =>
            /\ ret' = <<>>
            /\ mem_rb' = mem_rb
            /\ frees' = IF p_rb = NULL THEN frees
                        ELSE frees \o <<BUF_ADDR, RB_ADDR>>
       /\ last' = "slist_destroy" =>
            IF p_list = NULL
            THEN /\ ret' = <<FALSE>>
                 /\ mem_list' = mem_list /\ nodes' = nodes /\ frees' = frees
            ELSE /\ ret' = <<TRUE>>
                 /\ frees'[Len(frees')] = p_list]_vars

\* slist_destroy has been called on a null handle
C8_Witness ==
    /\ prog = "slist" /\ pc = "done"
    /\ last = "slist_destroy" /\ p_list = NULL /\ ret = <<FALSE>>

\* C9: rbuffer_create returns null when capacity < 1 or an allocation fails;
\* otherwise the buffer is empty: indices 0, full flag false, is_empty true,
\* data_count 0, free_count = capacity.
C9_CreateResult ==
    last = "rbuffer_create" =>
      LET capacity == hist[1][2][1]
          ok_rb    == hist[1][2][2]
          ok_buf   == hist[1][2][3]
      IN IF capacity < 1 \/ ~ok_rb \/ ~ok_buf
         THEN p_rb = NULL
         ELSE /\ p_rb = RB_ADDR
              /\ mem_rb.ridx = 0 /\ mem_rb.widx = 0 /\ ~mem_rb.b_is_full
              /\ mem_rb.capacity = capacity
              /\ rbuffer_is_empty(p_rb, mem_rb)
              /\ rbuffer_data_count(p_rb, mem_rb) = 0
              /\ rbuffer_free_count(p_rb, mem_rb) = capacity

\* rbuffer_create has returned a buffer of capacity 2
C9_Witness ==
    last = "rbuffer_create" /\ p_rb # NULL /\ mem_rb.capacity = 2

\* C10: on a null ring buffer handle is_empty and is_full are false,
\* data_count and free_count are 0, and write, read and clear fail; on a
\* null list handle is_empty is false, size is 0, and add_to_head,
\* add_to_tail, peek_head and remove_head fail; no state changes.
C10_NullHandle ==
    [][/\ (prog = "rbuffer" /\ pc = "run" /\ p_rb = NULL) =>
            /\ ~rbuffer_is_empty(p_rb, mem_rb)
            /\ ~rbuffer_is_full(p_rb, mem_rb)
            /\ rbuffer_data_count(p_rb, mem_rb) = 0
            /\ rbuffer_free_count(p_rb, mem_rb) = 0
            /\ last' \in {"rbuffer_write", "rbuffer_read", "rbuffer_clear"} =>
                 /\ ret' = <<FALSE>>
                 /\ UNCHANGED <<p_rb, mem_rb, data, allocs, frees>>
       /\ (prog = "slist" /\ pc = "run" /\ p_list = NULL) =>
            /\ ~slist_is_empty(p_list, mem_list)
            /\ slist_size(p_list, mem_list) = 0
            /\ last' \in {"slist_add_to_head", "slist_add_to_tail",
                          "slist_peek_head", "slist_remove_head"} =>
                 /\ ret' = <<FALSE>>
                 /\ UNCHANGED <<p_list, mem_list, nodes, data, allocs, frees>>
      ]_vars

\* rbuffer_write has been called with a null handle
C10_Witness ==
    /\ prog = "rbuffer" /\ p_rb = NULL
    /\ last = "rbuffer_write" /\ ret = <<FALSE>>

\* the list handle is valid: slist_create has returned it, slist_destroy
\* has not been called on it
ValidList == prog = "slist" /\ pc = "run" /\ p_list # NULL

\* the node addresses found from p by following p_next, at most fuel of them
RECURSIVE Chain(_, _, _)
Chain(p, n, fuel) ==
    IF p = NULL \/ fuel = 0 THEN <<>>
    ELSE <<p>> \o Chain(n[p].p_next, n, fuel - 1)

\* the nodes reachable from the head of the list
ListNodes(l, n) == Chain(l.p_head, n, Len(n) + 1)

\* the data of the nodes reachable from the head, in order
ListData(l, n) == [k \in 1..Len(ListNodes(l, n)) |-> n[ListNodes(l, n)[k]].data]

\* the abstract sequence after the calls h: a successful add_to_head
\* prepends, a successful add_to_tail appends, a successful remove_head
\* drops the first element, clear empties; no other call changes it
RECURSIVE AbsList(_)
AbsList(h) ==
    IF h = <<>> THEN <<>>
    ELSE LET c    == h[Len(h)]
             prev == AbsList(SubSeq(h, 1, Len(h) - 1))
         IN IF c[1] = "slist_add_to_head" /\ c[3] = <<TRUE>>
            THEN <<c[2][1]>> \o prev
            ELSE IF c[1] = "slist_add_to_tail" /\ c[3] = <<TRUE>>
            THEN Append(prev, c[2][1])
            ELSE IF c[1] = "slist_remove_head" /\ c[3] = <<TRUE>>
            THEN Tail(prev)
            ELSE IF c[1] = "slist_clear"
            THEN <<>>
            ELSE prev

\* C11: after any calls of add_to_head, add_to_tail and remove_head the
\* elements reachable from the head are the abstract sequence (prepend,
\* append, drop first), slist_size is its length, and each successful
\* remove_head returned the first element of the sequence before it.
C11_ListIsSequence ==
    ValidList =>
      /\ ListData(mem_list, nodes) = AbsList(hist)
      /\ slist_size(p_list, mem_list) = Len(AbsList(hist))
      /\ \A j \in 2..Len(hist) :
            (hist[j][1] = "slist_remove_head" /\ hist[j][3] = <<TRUE>>) =>
               LET before == AbsList(SubSeq(hist, 1, j - 1))
               IN before # <<>> /\ hist[j][4] = before[1]

\* add_to_head, add_to_tail, add_to_head with data 1, 2, 2, then a
\* remove_head that returned the 2 added last, leaving 1, 2
C11_Witness ==
    /\ ValidList /\ Len(hist) = 5
    /\ hist[2][1] = "slist_add_to_head" /\ hist[2][2][1] = 1
    /\ hist[3][1] = "slist_add_to_tail" /\ hist[3][2][1] = 2
    /\ hist[4][1] = "slist_add_to_head" /\ hist[4][2][1] = 2
    /\ hist[5][1] = "slist_remove_head" /\ hist[5][3] = <<TRUE>>
    /\ ListData(mem_list, nodes) = <<1, 2>>
    /\ data = 2

\* C12: slist_remove_head on a valid, empty list (also one just cleared)
\* returns failure and leaves head, tail, size and nodes unchanged; size is
\* still 0.
C12_RemoveEmptyFails ==
    [][(ValidList /\ last' = "slist_remove_head" /\ mem_list.size = 0)
       => /\ ret' = <<FALSE>>
          /\ data' = data
          /\ mem_list' = mem_list /\ nodes' = nodes /\ frees' = frees
          /\ slist_size(p_list', mem_list') = 0]_vars

\* remove_head with a place for the data has failed right after a clear of a
\* list that had a node
C12_Witness ==
    /\ ValidList /\ Len(hist) >= 4
    /\ hist[Len(hist)][1] = "slist_remove_head"
    /\ hist[Len(hist)][2] = DATA_ADDR
    /\ hist[Len(hist)][3] = <<FALSE>>
    /\ hist[Len(hist) - 1][1] = "slist_clear"
    /\ Len(nodes) >= 1

\* C13: in every state of a valid list the size field is the number of
\* nodes reachable from the head.
C13_SizeIsNodeCount ==
    ValidList => mem_list.size = Len(ListNodes(mem_list, nodes))

\* two nodes are left after a removal
C13_Witness ==
    /\ ValidList /\ mem_list.size = 2 /\ Len(frees) = 1
    /\ last = "slist_remove_head"

\* C14: size = 0 exactly when the head is null and exactly when the tail is
\* null; in a non-empty list the tail is the last node reachable from the
\* head and its p_next is null.
C14_HeadTailSize ==
    ValidList =>
      /\ (mem_list.size = 0) <=> (mem_list.p_head = NULL)
      /\ (mem_list.size = 0) <=> (mem_list.p_tail = NULL)
      /\ mem_list.size # 0 =>
           LET r == ListNodes(mem_list, nodes)
           IN /\ r # <<>>
              /\ mem_list.p_tail = r[Len(r)]
              /\ nodes[mem_list.p_tail].p_next = NULL

\* the only node was removed and add_to_tail then added a node after it
C14_Witness ==
    /\ ValidList /\ Len(hist) >= 4
    /\ hist[Len(hist)][1] = "slist_add_to_tail"
    /\ hist[Len(hist)][3] = <<TRUE>>
    /\ hist[Len(hist) - 1][1] = "slist_remove_head"
    /\ hist[Len(hist) - 1][3] = <<TRUE>>
    /\ mem_list.size = 1

\* the elements of a sequence
Range(sq) == {sq[k] : k \in 1..Len(sq)}

\* C15: every allocated block is freed exactly once: no address is freed
\* twice, only allocated addresses are freed, the nodes reachable from the
\* head or the tail of a valid list are exactly the node blocks not freed,
\* after slist_destroy nothing allocated is left unfreed; rbuffer_create
\* frees the control structure when the storage allocation fails and
\* rbuffer_destroy frees storage and control structure once.
C15_FreedExactlyOnce ==
    /\ \A a \in 1..Len(frees) : \A b \in 1..Len(frees) :
          a # b => frees[a] # frees[b]
    /\ Range(frees) \subseteq allocs
    /\ ValidList =>
         /\ p_list \notin Range(frees)
         /\ (Range(ListNodes(mem_list, nodes)) \cup ({mem_list.p_tail} \ {NULL}))
              = (allocs \ Range(frees)) \ {p_list}
    /\ (prog = "slist" /\ pc = "done") => Range(frees) = allocs
    /\ (prog = "rbuffer" /\ pc \in {"run", "done"}) =>
         LET a == hist[1][2]
         IN IF p_rb = NULL
            THEN /\ Range(frees) = allocs
                 /\ (a[1] >= 1 /\ a[2] /\ ~a[3]) => frees = <<RB_ADDR>>
            ELSE /\ allocs = {RB_ADDR, BUF_ADDR}
                 /\ pc = "run" => frees = <<>>
                 /\ pc = "done" => Range(frees) = allocs

\* a list whose first node was removed has been destroyed with a node left
\* in it
C15_Witness ==
    /\ prog = "slist" /\ pc = "done" /\ p_list # NULL
    /\ Len(frees) = 3 /\ frees[3] = p_list
    /\ \E j \in 2..Len(hist) :
          hist[j][1] = "slist_remove_head" /\ hist[j][3] = <<TRUE>>

\* the abstract bounded FIFO after the ring buffer calls h: a write appends,
\* dropping the first element when there are capacity elements already, a
\* successful read drops the first element, a clear empties it
RECURSIVE AbsFifo(_)
AbsFifo(h) ==
    IF Len(h) <= 1 THEN <<>>
    ELSE LET c    == h[Len(h)]
             prev == AbsFifo(SubSeq(h, 1, Len(h) - 1))
         IN IF c[1] = "rbuffer_write" /\ c[3] = <<TRUE>>
            THEN (IF Len(prev) = h[1][2][1] THEN Append(Tail(prev), c[2])
                  ELSE Append(prev, c[2]))
            ELSE IF c[1] = "rbuffer_read" /\ c[3] = <<TRUE>>
            THEN Tail(prev)
            ELSE IF c[1] = "rbuffer_clear" /\ c[3] = <<TRUE>>
            THEN <<>>
            ELSE prev

\* C16: rbuffer_write on a valid handle always succeeds; on a full buffer it
\* advances the read index by one modulo capacity, stores the value at the
\* write index and advances the write index modulo capacity, so the buffer
\* stays full, data_count stays capacity, and the contents are the previous
\* ones without the oldest, followed by the new value.
C16_WriteOverwritesOldest ==
    [][(ValidRb /\ last' = "rbuffer_write")
       => /\ ret' = <<TRUE>>
          /\ rbuffer_is_full(p_rb, mem_rb) =>
               LET v == hist'[Len(hist')][2]
               IN /\ mem_rb'.ridx = (mem_rb.ridx + 1) % mem_rb.capacity
                  /\ mem_rb'.widx = (mem_rb.widx + 1) % mem_rb.capacity
                  /\ mem_rb'.p_buf = [mem_rb.p_buf EXCEPT ![mem_rb.widx + 1] = v]
                  /\ mem_rb'.capacity = mem_rb.capacity
                  /\ rbuffer_is_full(p_rb', mem_rb')
                  /\ rbuffer_data_count(p_rb', mem_rb') = mem_rb.capacity
                  /\ Contents(p_rb', mem_rb')
                       = Append(Tail(Contents(p_rb, mem_rb)), v)]_vars

\* a buffer of capacity 3 was written four times, the last write wrapping
\* the write index
C16_Witness ==
    /\ ValidRb /\ mem_rb.capacity = 3
    /\ WritesThenReads(4, 0)
    /\ hist[2][2] # hist[5][2]

\* C17: on a valid handle, for every capacity >= 1, both indices are in
\* [0, capacity), the full flag is true exactly when the buffer holds
\* capacity unread elements, and the full flag implies read index = write
\* index.
C17_IndicesAndFlag ==
    ValidRb =>
      /\ mem_rb.capacity >= 1
      /\ mem_rb.ridx \in 0..(mem_rb.capacity - 1)
      /\ mem_rb.widx \in 0..(mem_rb.capacity - 1)
      /\ mem_rb.b_is_full <=>
           (rbuffer_data_count(p_rb, mem_rb) = mem_rb.capacity)
      /\ mem_rb.b_is_full => mem_rb.ridx = mem_rb.widx

\* C18: after any interleaving of write, read and clear the buffer is the
\* abstract bounded FIFO: the slots from the read index on hold its elements
\* in order, data_count is its length (at most capacity), a read succeeds
\* exactly when it is non-empty and returns its first element.
C18_RefinesFifo ==
    ValidRb =>
      /\ Contents(p_rb, mem_rb) = AbsFifo(hist)
      /\ rbuffer_data_count(p_rb, mem_rb) = Len(AbsFifo(hist))
      /\ Len(AbsFifo(hist)) <= mem_rb.capacity
      /\ \A j \in 2..Len(hist) :
            LET before == AbsFifo(SubSeq(hist, 1, j - 1))
            IN /\ hist[j][1] = "rbuffer_write" => hist[j][3] = <<TRUE>>
               /\ (hist[j][1] = "rbuffer_read" /\ hist[j][2] = DATA_ADDR) =>
                     /\ hist[j][3] = <<before # <<>>>>
                     /\ before # <<>> => hist[j][4] = before[1]
               /\ hist[j][5] = Len(AbsFifo(SubSeq(hist, 1, j)))

\* C19: from a state with k = data_count elements, of the reads that follow
\* with no other call in between exactly the first k succeed and all later
\* ones fail; after the k-th the buffer is empty with the full flag false; a
\* read that makes the indices coincide leaves the full flag false.
C19_ReadsDrain ==
    ValidRb =>
      /\ \A m \in 1..Len(hist) :
           (\A j \in (m + 1)..Len(hist) :
               hist[j][1] = "rbuffer_read" /\ hist[j][2] = DATA_ADDR) =>
             LET k == hist[m][5]
                 t == Len(hist) - m
             IN /\ \A j \in 1..t : hist[m + j][3] = <<j <= k>>
                /\ t >= k => /\ rbuffer_is_empty(p_rb, mem_rb)
                             /\ ~mem_rb.b_is_full
      /\ (last = "rbuffer_read" /\ ret = <<TRUE>>
          /\ mem_rb.ridx = mem_rb.widx) => ~mem_rb.b_is_full

\* a full buffer of capacity 2 with wrapped indices was read three times and
\* the third read failed
C19_Witness ==
    /\ ValidRb /\ mem_rb.capacity = 2
    /\ WritesThenReads(3, 3)
    /\ hist[5][3] = <<TRUE>> /\ hist[6][3] = <<TRUE>> /\ hist[7][3] = <<FALSE>>

\* C20: when the node allocation fails in slist_add_to_head or
\* slist_add_to_tail the call returns failure and the list is as it was:
\* head, tail, size and every node unchanged, nothing allocated or freed.
C20_AllocFailureNoChange ==
    [][(ValidList /\ last' \in {"slist_add_to_head", "slist_add_to_tail"}
        /\ hist'[Len(hist')][2][2] = NULL)
       => /\ ret' = <<FALSE>>
          /\ mem_list' = mem_list
          /\ nodes' = nodes
          /\ ListNodes(mem_list', nodes') = ListNodes(mem_list, nodes)
          /\ allocs' = allocs /\ frees' = frees /\ data' = data]_vars

\* the allocation has failed in slist_add_to_tail on a list of two nodes
C20_Witness ==
    /\ ValidList /\ mem_list.size = 2
    /\ last = "slist_add_to_tail" /\ ret = <<FALSE>>
    /\ hist[Len(hist)][2][2] = NULL

\* C21: slist_clear on a valid list terminates (the chain from the head ends
\* in null within the nodes allocated), frees every node reachable from the
\* head in forward order and leaves head null, tail null, size 0; on an
\* empty list, also one just cleared, it frees nothing and the list stays
\* empty; a successful add_to_head or add_to_tail right after a clear makes
\* the new node both head and tail.
C21_ClearFreesAndResets ==
    [][/\ (ValidList /\ last' = "slist_clear")
          => /\ Len(ListNodes(mem_list, nodes)) <= Len(nodes)
             /\ frees' = frees \o ListNodes(mem_list, nodes)
             /\ mem_list' = slist_t(NULL, NULL, 0)
             /\ ListNodes(mem_list', nodes') = <<>>
             /\ nodes' = nodes /\ allocs' = allocs /\ p_list' = p_list
             /\ (mem_list.size = 0 \/ last = "slist_clear")
                  => (frees' = frees /\ mem_list' = mem_list)
       /\ (ValidList /\ last = "slist_clear"
           /\ last' \in {"slist_add_to_head", "slist_add_to_tail"}
           /\ ret' = <<TRUE>>)
          => /\ mem_list'.p_head = Len(nodes')
             /\ mem_list'.p_tail = Len(nodes')
             /\ mem_list'.size = 1
             /\ Len(nodes') = Len(nodes) + 1
             /\ nodes'[Len(nodes')].p_next = NULL
             /\ ListData(mem_list', nodes') = <<hist'[Len(hist')][2][1]>>]_vars

\* a list built by two add_to_head was cleared, which freed the second node
\* before the first, and add_to_tail then added a node to it
C21_Witness ==
    /\ ValidList /\ Len(hist) = 5
    /\ hist[2][1] = "slist_add_to_head" /\ hist[3][1] = "slist_add_to_head"
    /\ hist[4][1] = "slist_clear"
    /\ hist[5][1] = "slist_add_to_tail" /\ hist[5][3] = <<TRUE>>
    /\ frees = <<2, 1>>
    /\ mem_list.p_head = 3 /\ mem_list.p_tail = 3 /\ mem_list.size = 1

\* C22: slist_peek_head with a place for the data leaves head, tail, size
\* and all nodes unchanged; on a non-empty list it succeeds with the data of
\* the head, which is the value slist_remove_head returns when called next;
\* on an empty list it returns failure and does not write the data.
C22_PeekIsNextRemove ==
    [][/\ (ValidList /\ last' = "slist_peek_head"
           /\ hist'[Len(hist')][2] = DATA_ADDR)
          => /\ mem_list' = mem_list /\ nodes' = nodes
             /\ allocs' = allocs /\ frees' = frees /\ p_list' = p_list
             /\ ListNodes(mem_list', nodes') = ListNodes(mem_list, nodes)
             /\ IF mem_list.size = 0
                THEN ret' = <<FALSE>> /\ data' = data
                ELSE /\ ret' = <<TRUE>>
                     /\ data' = ListData(mem_list, nodes)[1]
       /\ (ValidList /\ last = "slist_peek_head" /\ ret = <<TRUE>>
           /\ last' = "slist_remove_head"
           /\ hist'[Len(hist')][2] = DATA_ADDR)
          => /\ ret' = <<TRUE>>
             /\ data' = data
             /\ hist'[Len(hist')][4] = hist[Len(hist)][4]]_vars

\* two nodes with different data were added, peek_head succeeded and the
\* remove_head after it returned the same value
C22_Witness ==
    /\ ValidList /\ Len(hist) = 5
    /\ Len(nodes) = 2 /\ nodes[1].data # nodes[2].data
    /\ hist[4][1] = "slist_peek_head" /\ hist[4][3] = <<TRUE>>
    /\ hist[5][1] = "slist_remove_head" /\ hist[5][3] = <<TRUE>>
    /\ hist[4][4] = hist[5][4] /\ data = hist[5][4]
    /\ mem_list.size = 1

\* C23: rbuffer_read on a valid, non-empty buffer and slist_remove_head on a
\* valid, non-empty list, called with a null place for the data, return
\* failure and consume nothing: indices, full flag and contents of the
\* buffer, and head, tail, size and nodes of the list, are unchanged.
C23_NullDataConsumesNothing ==
    [][/\ (ValidRb /\ last' = "rbuffer_read"
           /\ hist'[Len(hist')][2] = NULL
           /\ ~rbuffer_is_empty(p_rb, mem_rb))
          => /\ ret' = <<FALSE>>
             /\ mem_rb' = mem_rb
             /\ Contents(p_rb', mem_rb') = Contents(p_rb, mem_rb)
             /\ rbuffer_data_count(p_rb', mem_rb')
                  = rbuffer_data_count(p_rb, mem_rb)
             /\ data' = data
       /\ (ValidList /\ last' = "slist_remove_head"
           /\ hist'[Len(hist')][2] = NULL
           /\ ~slist_is_empty(p_list, mem_list))
          => /\ ret' = <<FALSE>>
             /\ mem_list' = mem_list /\ nodes' = nodes
             /\ ListData(mem_list', nodes') = ListData(mem_list, nodes)
             /\ frees' = frees /\ allocs' = allocs
             /\ data' = data]_vars

\* a read without a place for the data has failed on a buffer holding two
\* elements, and both are still there
C23_Witness ==
    /\ ValidRb /\ Len(hist) = 4
    /\ hist[2][1] = "rbuffer_write" /\ hist[3][1] = "rbuffer_write"
    /\ hist[4][1] = "rbuffer_read" /\ hist[4][2] = NULL
    /\ hist[4][3] = <<FALSE>>
    /\ rbuffer_data_count(p_rb, mem_rb) = 2
    /\ mem_rb.ridx = 0

(* ------------------- main.c of the ring buffer module ------------------ *)

BUFFER_SIZE == 8

\* conversion of an int argument to the uint8_t parameter of rbuffer_write
ToUint8(v) == v % 256

\* the int32_t value of the four bytes of main's variable data, given in
\* address order
ToInt32(bytes) ==
    LET le == IF prog = "main little-endian" THEN bytes
              ELSE <<bytes[4], bytes[3], bytes[2], bytes[1]>>
        hi == IF le[4] >= 128 THEN le[4] - 256 ELSE le[4]
    IN hi * 16777216 + le[3] * 65536 + le[2] * 256 + le[1]

\* rbuffer_read(rb, &data) stores one byte through a uint8_t pointer to the
\* int32_t variable data: its lowest-addressed byte
StoreByte(bytes, byte) == [bytes EXCEPT ![1] = byte]

\* printf("%d", b) of a bool
BoolInt(b) == IF b THEN 1 ELSE 0

InitMain ==
    /\ prog \in {"main little-endian", "main big-endian"}
    /\ pc = "L19"
    /\ p_rb = NULL
    /\ mem_rb = NoRb
    /\ p_list = NULL
    /\ mem_list = NoList
    /\ nodes = <<>>
    /\ data \in {<<g, g, g, g>> : g \in 0..MaxGarbage}
    /\ ret = <<>>
    /\ last = "none"
    /\ hist = <<>>
    /\ allocs = {}
    /\ frees = <<>>
    /\ i = 0
    /\ stdout = <<>>

MainFrame == UNCHANGED <<prog, p_list, mem_list, nodes, hist>>

\* line 19
MainCreate ==
    /\ pc = "L19"
    /\ \E ok_rb \in BOOLEAN, ok_buf \in BOOLEAN :
         LET c == rbuffer_create(BUFFER_SIZE, ok_rb, ok_buf)
         IN /\ p_rb' = c.p
            /\ mem_rb' = c.m
            /\ allocs' = c.allocs
            /\ frees' = c.frees
    /\ ret' = <<>>
    /\ last' = "rbuffer_create"
    /\ pc' = "L20"
    /\ MainFrame /\ UNCHANGED <<data, i, stdout>>

\* the printf calls of lines 20-22, 31-33, 41, 51-52, 68, 72-73, 77-78
MainPrint ==
    /\ pc \in {"L20", "L31", "L41", "L51", "L68", "L72", "L77"}
    /\ stdout' = stdout \o
         (CASE pc = "L20" -> << <<BoolInt(rbuffer_is_empty(p_rb, mem_rb))>>,
                                <<rbuffer_data_count(p_rb, mem_rb)>>,
                                <<rbuffer_free_count(p_rb, mem_rb)>> >>
            [] pc = "L31" -> << <<rbuffer_data_count(p_rb, mem_rb)>>,
                                <<BoolInt(rbuffer_is_full(p_rb, mem_rb))>>,
                                <<BoolInt(rbuffer_is_empty(p_rb, mem_rb))>> >>
            [] pc = "L41" -> << <<rbuffer_data_count(p_rb, mem_rb)>> >>
            [] pc = "L68" -> << <<BoolInt(rbuffer_is_empty(p_rb, mem_rb))>> >>
            [] OTHER      -> << <<rbuffer_data_count(p_rb, mem_rb)>>,
                                <<rbuffer_free_count(p_rb, mem_rb)>> >>)
    /\ pc' = (CASE pc = "L20" -> "L26" [] pc = "L31" -> "L36"
                [] pc = "L41" -> "L44" [] pc = "L51" -> "L55"
                [] pc = "L68" -> "L70" [] pc = "L72" -> "L75"
                [] OTHER -> "L81")
    /\ i' = (CASE pc = "L20" -> 0 [] pc = "L31" -> -4 [] pc = "L41" -> 0
               [] pc = "L51" -> 0 [] OTHER -> i)
    /\ MainFrame /\ UNCHANGED <<p_rb, mem_rb, data, ret, last, allocs, frees>>

\* lines 26-29 and 36-39: one iteration of a loop of writes
MainWriteLoop ==
    /\ \/ pc = "L26" /\ i < BUFFER_SIZE
       \/ pc = "L36" /\ i < 0
    /\ LET w == rbuffer_write(p_rb, mem_rb, ToUint8(i))
       IN /\ mem_rb' = w.m
          /\ ret' = <<w.ret>>
    /\ last' = "rbuffer_write"
    /\ i' = i + 1
    /\ pc' = IF pc = "L26"
             THEN (IF i + 1 < BUFFER_SIZE THEN "L26" ELSE "L31")
             ELSE (IF i + 1 < 0 THEN "L36" ELSE "L41")
    /\ MainFrame /\ UNCHANGED <<p_rb, data, allocs, frees, stdout>>

\* lines 44-48 and 55-65: one iteration of a loop of reads
MainReadLoop ==
    /\ \/ pc = "L44" /\ i < 3
       \/ pc = "L55" /\ i < BUFFER_SIZE
    /\ LET r == rbuffer_read(p_rb, mem_rb, DATA_ADDR, data[1])
           d == IF r.ret THEN StoreByte(data, r.data) ELSE data
       IN /\ mem_rb' = r.m
          /\ ret' = <<r.ret>>
          /\ data' = d
          /\ stdout' = Append(stdout,
                IF pc = "L44" \/ r.ret THEN <<ToInt32(d)>> ELSE <<>>)
    /\ last' = "rbuffer_read"
    /\ i' = i + 1
    /\ pc' = IF pc = "L44"
             THEN (IF i + 1 < 3 THEN "L44" ELSE "L51")
             ELSE (IF i + 1 < BUFFER_SIZE THEN "L55" ELSE "L68")
    /\ MainFrame /\ UNCHANGED <<p_rb, allocs, frees>>

\* line 70
MainWrite4 ==
    /\ pc = "L70"
    /\ LET w == rbuffer_write(p_rb, mem_rb, ToUint8(4))
       IN /\ mem_rb' = w.m
          /\ ret' = <<w.ret>>
    /\ last' = "rbuffer_write"
    /\ pc' = "L72"
    /\ MainFrame /\ UNCHANGED <<p_rb, data, allocs, frees, i, stdout>>

\* line 75
MainClear ==
    /\ pc = "L75"
    /\ LET c == rbuffer_clear(p_rb, mem_rb)
       IN /\ mem_rb' = c.m
          /\ ret' = <<c.ret>>
    /\ last' = "rbuffer_clear"
    /\ pc' = "L77"
    /\ MainFrame /\ UNCHANGED <<p_rb, data, allocs, frees, i, stdout>>

\* line 81
MainDestroy ==
    /\ pc = "L81"
    /\ frees' = frees \o rbuffer_destroy(p_rb)
    /\ ret' = <<>>
    /\ last' = "rbuffer_destroy"
    /\ pc' = "L83"
    /\ MainFrame /\ UNCHANGED <<p_rb, mem_rb, data, allocs, i, stdout>>

NextMain ==
    \/ MainCreate \/ MainPrint \/ MainWriteLoop \/ MainReadLoop
    \/ MainWrite4 \/ MainClear \/ MainDestroy

SpecMain == InitMain /\ [][NextMain]_vars

\* C5: in main's capacity-8 buffer, after the writes of 0..7 and -4..-1 the
\* buffer holds 4,5,6,7,-4,-3,-2,-1 with data_count 8; three reads then
\* yield 4,5,6 and leave 7,-4,-3,-2,-1 with data_count 5 and free_count 3.
C5_MainScenario ==
    p_rb # NULL =>
      /\ pc = "L41" =>
           /\ Contents(p_rb, mem_rb) = <<4, 5, 6, 7, -4, -3, -2, -1>>
           /\ rbuffer_data_count(p_rb, mem_rb) = 8
      /\ pc = "L51" =>
           /\ SubSeq(stdout, Len(stdout) - 2, Len(stdout)) = << <<4>>, <<5>>, <<6>> >>
           /\ Contents(p_rb, mem_rb) = <<7, -4, -3, -2, -1>>
           /\ rbuffer_data_count(p_rb, mem_rb) = 5
           /\ rbuffer_free_count(p_rb, mem_rb) = 3

====
